---- MODULE Spec2Model ----
(***************************************************************************)
(* Model of packages/storage-plus/src/iter_helpers.rs (cosmwasm-plus):     *)
(* the length-prefixed namespace encoder, the namespace upper bound, the   *)
(* prefixed range scan over an ordered byte store, and the per-item typed  *)
(* decoding adapter.                                                       *)
(*                                                                         *)
(* A byte string (Vec<u8>, &[u8]) is a sequence of integers in 0..255.     *)
(* An Option<T> is a sequence of length at most one: None is <<>> and      *)
(* Some(x) is <<x>>.                                                       *)
(***************************************************************************)
EXTENDS Integers, Sequences, FiniteSets, TLC

VARIABLES
    pc,          \* which call is in progress / how it ended
    input,       \* namespace_upper_bound: its argument
    probe,       \* a raw key compared against the range [input, bound)
    bound,       \* namespace_upper_bound: its result
    namespaces,  \* to_length_prefixed_nested: its argument (sequence of segments)
    out,         \* to_length_prefixed_nested: its result
    store,       \* the ordered store: a function from raw keys to values
    namespace,   \* range_with_prefix: argument
    start,       \* range_with_prefix: argument (Option)
    end,         \* range_with_prefix: argument (Option)
    order,       \* range_with_prefix: argument
    base,        \* what is left of base_iterator (sequence of <<raw key, value>>)
    taken,       \* raw items base_iterator has handed to the closure so far
    yielded,     \* items the mapped iterator has produced so far
    kvs,         \* the KV items fed to deserialize_kv, in order
    decoded      \* deserialize_kv's result for each item consumed so far

vars == <<pc, input, probe, bound, namespaces, out, store, namespace, start,
          end, order, base, taken, yielded, kvs, decoded>>

-----------------------------------------------------------------------------
(* Bounds of the model *)

\* longest argument of namespace_upper_bound, and longest probe key
MaxInputLen == 3

\* most segments in an argument of to_length_prefixed_nested (besides the
\* long-segment inputs of LongInputs)
MaxSegs == 2

\* longest short segment
MaxSegLen == 2

\* longest relative key, and longest relative start / end bound
MaxRelLen == 1

\* most items in the sequence fed to deserialize_kv
MaxItems == 2

\* longest raw key of the store, and longest namespace scanned, in Spec
MaxKeyLen == 2

\* most entries in the store
MaxStore == 2

-----------------------------------------------------------------------------
(* Bytes and byte strings *)

\* u8::MAX, the byte the loop of namespace_upper_bound tests for
U8_MAX == 255

None == <<>>
Some(x) == <<x>>

\* all byte strings over the byte values B of length at most n
ByteStrings(B, n) == UNION {[1..k -> B] : k \in 0..n}

\* namespace.to_vec() followed by extend_from_slice(key)
concat(ns, key) == ns \o key

\* slice::starts_with
IsPrefix(p, k) == Len(p) <= Len(k) /\ \A i \in 1..Len(p) : k[i] = p[i]

\* Ord for [u8] / Vec<u8>: byte-lexicographic, a proper prefix sorts first
LexLess(a, b) ==
    \E i \in 1..Len(b) :
        /\ i <= Len(a) + 1
        /\ \A j \in 1..(i - 1) : a[j] = b[j]
        /\ (i = Len(a) + 1 \/ a[i] < b[i])

LexLeq(a, b) == a = b \/ LexLess(a, b)

AllFF(s) == \A i \in 1..Len(s) : s[i] = U8_MAX

-----------------------------------------------------------------------------
(* namespace_upper_bound *)

\* the loop `for i in (0..input.len()).rev()` from index i (1-based) down
RECURSIVE upper_bound_loop(_, _)
upper_bound_loop(copy, i) ==
    IF i = 0 THEN copy
    ELSE IF copy[i] = U8_MAX
         THEN upper_bound_loop([copy EXCEPT ![i] = 0], i - 1)
         ELSE [copy EXCEPT ![i] = copy[i] + 1]

\* a plausible slip: the last byte is incremented with wrap-around and the
\* carry is not taken up the chain
upper_bound_no_carry(inp) ==
    IF Len(inp) = 0 THEN inp
    ELSE [inp EXCEPT ![Len(inp)] = (inp[Len(inp)] + 1) % (U8_MAX + 1)]

\* a plausible slip: the first byte from the end that is not 0xFF is
\* incremented, the 0xFF bytes after it are not reset
RECURSIVE keeps_ff_loop(_, _)
keeps_ff_loop(copy, i) ==
    IF i = 0 THEN copy
    ELSE IF copy[i] = U8_MAX
         THEN keeps_ff_loop(copy, i - 1)
         ELSE [copy EXCEPT ![i] = copy[i] + 1]

upper_bound_keeps_ff(inp) == keeps_ff_loop(inp, Len(inp))

namespace_upper_bound(inp) == upper_bound_loop(inp, Len(inp))

-----------------------------------------------------------------------------
(* Specification SpecBound: namespace_upper_bound on every small input *)

BoundBytes == {0, 1, 254, 255}

InitBound ==
    /\ pc = "idle"
    /\ input \in ByteStrings(BoundBytes, MaxInputLen)
    /\ probe \in ByteStrings(BoundBytes, MaxInputLen)
    /\ bound = <<>>
    /\ namespaces = <<>> /\ out = <<>>
    /\ store = <<>> /\ namespace = <<>> /\ start = None /\ end = None
    /\ order = "Ascending" /\ base = <<>> /\ taken = <<>> /\ yielded = <<>>
    /\ kvs = <<>> /\ decoded = <<>>

CallUpperBound ==
    /\ pc = "idle"
    /\ bound' = namespace_upper_bound(input)
    /\ pc' = "bound"
    /\ UNCHANGED <<input, probe, namespaces, out, store, namespace, start, end,
                   order, base, taken, yielded, kvs, decoded>>

NextBound == CallUpperBound

SpecBound == InitBound /\ [][NextBound]_vars

\* number of 0xFF bytes at the end of s
TrailingFF(s) ==
    Cardinality({k \in 1..Len(s) : \A i \in (Len(s) - k + 1)..Len(s) : s[i] = U8_MAX})

\* C1: for every prefix P (input) that is non-empty and not all 0xFF, and
\* every key K (probe): K has P as a byte-prefix if and only if
\* P <= K < namespace_upper_bound(P), also when P ends in 0xFF bytes.
C1_BoundExact ==
    (pc = "bound" /\ input # <<>> /\ ~AllFF(input))
        => (IsPrefix(input, probe)
              <=> (LexLeq(input, probe) /\ LexLess(probe, bound)))

\* C9: the result has the length of the input; every byte of the trailing
\* run of 0xFF is 0x00, the last byte that is not 0xFF is incremented by
\* one and stays a byte, every byte before it is unchanged; an all-0xFF
\* input gives all 0x00 and the empty input gives the empty output.
C9_BoundShape ==
    pc = "bound" =>
        LET n == Len(input)
            t == TrailingFF(input)
        IN /\ Len(bound) = n
           /\ \A i \in 1..n :
                 /\ bound[i] \in 0..U8_MAX
                 /\ bound[i] = IF i > n - t THEN 0
                               ELSE IF i = n - t THEN input[i] + 1
                               ELSE input[i]
           /\ (AllFF(input) => \A i \in 1..n : bound[i] = 0)
           /\ (input = <<>> => bound = <<>>)

\* an input with a 0xFF byte that is not at the end and a trailing 0xFF
C9_Witness ==
    pc = "bound" /\ input = <<255, 254, 255>> /\ bound = <<255, 255, 0>>

-----------------------------------------------------------------------------
(* to_length_prefixed_nested *)

\* the largest length a segment may have (0xFFFF)
NS_LEN_MAX == 65535

\* crate::helpers::encode_length: the length as two bytes, big-endian
encode_length(ns) == <<Len(ns) \div (U8_MAX + 1), Len(ns) % (U8_MAX + 1)>>

\* the first loop: size += namespace.len() + 2
RECURSIVE nested_size(_, _)
nested_size(nss, k) ==
    IF k > Len(nss) THEN 0 ELSE Len(nss[k]) + 2 + nested_size(nss, k + 1)

\* the second loop, from segment k on: the tag, then the segment
RECURSIVE nested_loop(_, _, _)
nested_loop(nss, k, acc) ==
    IF k > Len(nss) THEN acc
    ELSE nested_loop(nss, k + 1, (acc \o encode_length(nss[k])) \o nss[k])

\* a plausible slip: the segments are joined without their length tags
RECURSIVE nested_no_tags(_)
nested_no_tags(nss) ==
    IF nss = <<>> THEN <<>> ELSE Head(nss) \o nested_no_tags(Tail(nss))

\* a plausible slip: every tag is the length of the first segment
RECURSIVE nested_first_tag_loop(_, _, _)
nested_first_tag_loop(nss, k, acc) ==
    IF k > Len(nss) THEN acc
    ELSE nested_first_tag_loop(nss, k + 1,
                               (acc \o encode_length(nss[1])) \o nss[k])

nested_first_tag(nss) == nested_first_tag_loop(nss, 1, <<>>)

to_length_prefixed_nested(nss) == nested_loop(nss, 1, <<>>)

-----------------------------------------------------------------------------
(* Specification SpecEncode: to_length_prefixed_nested on segment sequences *)
(*                                                                          *)
(* The state keeps byte strings run-length encoded, as a sequence of runs   *)
(* <<byte, count>>, so that a segment at the 16-bit limit stays small in    *)
(* the state; the encoder itself is applied to the byte strings.            *)

\* byte values of the short segments: 0 and 1 also read as length tags
EncBytes == {0, 1, 255}

\* the byte string of n bytes b
Fill(b, n) == [i \in 1..n |-> b]

\* the byte string a sequence of runs stands for
RECURSIVE Bytes(_)
Bytes(runs) ==
    IF runs = <<>> THEN <<>>
    ELSE Fill(runs[1][1], runs[1][2]) \o Bytes(Tail(runs))

\* the runs of a byte string
Runs(s) ==
    LET starts == {i \in 1..Len(s) : i = 1 \/ s[i] # s[i - 1]}
        nth(j) == CHOOSE i \in starts : Cardinality({x \in starts : x <= i}) = j
        stop(j) == IF j = Cardinality(starts) THEN Len(s) + 1 ELSE nth(j + 1)
    IN [j \in 1..Cardinality(starts) |-> <<s[nth(j)], stop(j) - nth(j)>>]

SegmentsOf(nss) == [k \in 1..Len(nss) |-> Bytes(nss[k])]

ShortSegments == ByteStrings(EncBytes, MaxSegLen)

ShortInputs == UNION {[1..k -> ShortSegments] : k \in 0..MaxSegs}

\* the inputs with segments at the 16-bit limit: the three long namespaces
\* of to_length_prefixed_nested_allows_many_long_namespaces, and one
\* segment of the greatest length made of 0xFF bytes
LongInputs ==
    { << << <<170, NS_LEN_MAX - 2>> >>, << <<187, NS_LEN_MAX - 1>> >>,
         << <<204, NS_LEN_MAX>> >> >>,
      << << <<U8_MAX, NS_LEN_MAX>> >> >> }

EncInputs ==
    {[k \in 1..Len(nss) |-> Runs(nss[k])] : nss \in ShortInputs} \cup LongInputs

InitEncode ==
    /\ pc = "idle"
    /\ namespaces \in EncInputs
    /\ out = <<>>
    /\ input = <<>> /\ probe = <<>> /\ bound = <<>>
    /\ store = <<>> /\ namespace = <<>> /\ start = None /\ end = None
    /\ order = "Ascending" /\ base = <<>> /\ taken = <<>> /\ yielded = <<>>
    /\ kvs = <<>> /\ decoded = <<>>

CallEncode ==
    /\ pc = "idle"
    /\ out' = Runs(to_length_prefixed_nested(SegmentsOf(namespaces)))
    /\ pc' = "encoded"
    /\ UNCHANGED <<input, probe, bound, namespaces, store, namespace, start,
                   end, order, base, taken, yielded, kvs, decoded>>

NextEncode == CallEncode

SpecEncode == InitEncode /\ [][NextEncode]_vars

\* reading a prefix back: a tag, then as many bytes as the tag says
RECURSIVE SplitTagged(_)
SplitTagged(bytes) ==
    IF Len(bytes) < 2 THEN <<>>
    ELSE LET n == bytes[1] * (U8_MAX + 1) + bytes[2]
         IN <<SubSeq(bytes, 3, 2 + n)>> \o SplitTagged(SubSeq(bytes, 3 + n, Len(bytes)))

\* where segment k starts in the output: the sum of (len + 2) of the
\* segments before it
RECURSIVE Offset(_, _)
Offset(nss, k) == IF k <= 1 THEN 0 ELSE Offset(nss, k - 1) + Len(nss[k - 1]) + 2

\* C2: to_length_prefixed_nested is injective on sequences of segments of
\* at most 65535 bytes each: the sequence of segments is read back from the
\* output alone (tag, then that many bytes, repeated), so two different
\* sequences never give the same output.
C2_Injective ==
    pc = "encoded" => SplitTagged(Bytes(out)) = SegmentsOf(namespaces)

\* two segments whose plain concatenation collides with a single segment
C2_Witness ==
    /\ pc = "encoded"
    /\ SegmentsOf(namespaces) = << <<0>>, <<1>> >>
    /\ Bytes(out) = <<0, 1, 0, 0, 1, 1>>

\* C3: the output is the concatenation, in input order, of (2-byte
\* big-endian length of the segment, the segment's bytes): its length is
\* the sum of (len + 2), each tag is its own segment's length whatever the
\* other segments are, the empty sequence gives the empty string and one
\* empty segment gives 0x00 0x00.
C3_Layout ==
    pc = "encoded" =>
        LET nss == SegmentsOf(namespaces)
            o == Bytes(out)
        IN /\ Len(o) = Offset(nss, Len(nss) + 1)
           /\ Len(o) = nested_size(nss, 1)
           /\ \A k \in 1..Len(nss) :
                LET seg == nss[k]
                    off == Offset(nss, k)
                IN /\ o[off + 1] * (U8_MAX + 1) + o[off + 2] = Len(seg)
                   /\ o[off + 1] \in 0..U8_MAX
                   /\ o[off + 2] \in 0..U8_MAX
                   /\ \A i \in 1..Len(seg) : o[off + 2 + i] = seg[i]
           /\ (nss = <<>> => o = <<>>)
           /\ (nss = << <<>> >> => o = <<0, 0>>)

\* the three long namespaces of the test, each with its own tag
C3_Witness ==
    /\ pc = "encoded"
    /\ Len(namespaces) = 3
    /\ namespaces[3] = << <<204, NS_LEN_MAX>> >>
    /\ out = << <<255, 1>>, <<253, 1>>, <<170, NS_LEN_MAX - 2>>,
                <<255, 1>>, <<254, 1>>, <<187, NS_LEN_MAX - 1>>,
                <<255, 2>>, <<204, NS_LEN_MAX>> >>

\* C7: for every non-empty sequence of segments of at most 65535 bytes
\* each, the encoded prefix has at least one byte different from 0xFF.
C7_NeverAllFF ==
    (pc = "encoded" /\ namespaces # <<>>) => ~AllFF(Bytes(out))

-----------------------------------------------------------------------------
(* deserialize_kv *)

\* ASCII '0'..'9'
IsDigit(b) == b \in 48..57

\* the number a string of ASCII digits writes
RECURSIVE DigitsValue(_)
DigitsValue(v) ==
    IF v = <<>> THEN 0
    ELSE 10 * DigitsValue(SubSeq(v, 1, Len(v) - 1)) + (v[Len(v)] - 48)

\* cosmwasm_std::from_slice::<T> for an unsigned integer T: the JSON number
\* the bytes write, or StdError::ParseErr, which names the target type and
\* the parser's message and nothing else
from_slice(v) ==
    LET ParseErr(msg) == <<"Err", [kind |-> "ParseErr", target |-> "T", msg |-> msg]>>
    IN IF v = <<>> THEN ParseErr("EofWhileParsingValue")
       ELSE IF ~IsDigit(v[1]) THEN ParseErr("ExpectedSomeValue")
       ELSE IF v[1] = 48 /\ Len(v) > 1 /\ IsDigit(v[2]) THEN ParseErr("InvalidNumber")
       ELSE IF \E i \in 1..Len(v) : ~IsDigit(v[i]) THEN ParseErr("TrailingCharacters")
       ELSE <<"Ok", DigitsValue(v)>>

\* a plausible slip: the key is not carried over to the result
deserialize_kv_drops_key(kv) ==
    IF from_slice(kv[2])[1] = "Ok"
    THEN <<"Ok", <<<<>>, from_slice(kv[2])[2]>>>>
    ELSE from_slice(kv[2])

\* let (k, v) = kv; let t = from_slice::<T>(&v)?; Ok((k, t))
deserialize_kv(kv) ==
    LET k == kv[1]
        v == kv[2]
        t == from_slice(v)
    IN IF t[1] = "Err" THEN t ELSE <<"Ok", <<k, t[2]>>>>

-----------------------------------------------------------------------------
(* Specification SpecDecode: deserialize_kv mapped over a sequence of items *)

KeyBytes == {254, 255}

\* stored values: "", "0", "7", "10", "01", "x", "1x"
DecValues == {<<>>, <<48>>, <<55>>, <<49, 48>>, <<48, 49>>, <<120>>, <<49, 120>>}

DecItems == ByteStrings(KeyBytes, MaxRelLen) \X DecValues

InitDecode ==
    /\ pc = "idle"
    /\ kvs \in UNION {[1..n -> DecItems] : n \in 0..MaxItems}
    /\ decoded = <<>>
    /\ input = <<>> /\ probe = <<>> /\ bound = <<>>
    /\ namespaces = <<>> /\ out = <<>>
    /\ store = <<>> /\ namespace = <<>> /\ start = None /\ end = None
    /\ order = "Ascending" /\ base = <<>> /\ taken = <<>> /\ yielded = <<>>

\* the adapter decodes the next item of the sequence
DecodeNext ==
    /\ pc \in {"idle", "decoding"}
    /\ Len(decoded) < Len(kvs)
    /\ decoded' = Append(decoded, deserialize_kv(kvs[Len(decoded) + 1]))
    /\ pc' = "decoding"
    /\ UNCHANGED <<input, probe, bound, namespaces, out, store, namespace,
                   start, end, order, base, taken, yielded, kvs>>

\* the sequence is exhausted
DecodeEnd ==
    /\ pc \in {"idle", "decoding"}
    /\ Len(decoded) = Len(kvs)
    /\ pc' = "decoded"
    /\ UNCHANGED <<input, probe, bound, namespaces, out, store, namespace,
                   start, end, order, base, taken, yielded, kvs, decoded>>

NextDecode == DecodeNext \/ DecodeEnd

SpecDecode == InitDecode /\ [][NextDecode]_vars

\* the decimal numeral of n
RECURSIVE Decimal(_)
Decimal(n) ==
    IF n < 10 THEN <<48 + n>> ELSE Append(Decimal(n \div 10), 48 + (n % 10))

\* v is the decimal numeral of some number
IsNumeral(v) == \E n \in 0..(10 ^ Len(v)) : Decimal(n) = v

\* C8 as stated: an item whose value does not parse gives an error that
\* includes the offending key, so the key can be read off the error: two
\* failed items with the same error have the same key.
C8_ErrorNamesKey ==
    \A i, j \in 1..Len(decoded) :
        (decoded[i][1] = "Err" /\ decoded[i] = decoded[j]) => kvs[i][1] = kvs[j][1]

\* C8 as amended: every item consumed has its own result, in order: when
\* its value parses, Ok of the key unchanged and the decoded value; when it
\* does not, an error for that item (the parser's error, without the key);
\* the result of an item depends on that item alone.
C8_PerItem ==
    /\ Len(decoded) <= Len(kvs)
    /\ (pc = "decoded" => Len(decoded) = Len(kvs))
    /\ \A i \in 1..Len(decoded) :
         IF IsNumeral(kvs[i][2])
         THEN /\ decoded[i][1] = "Ok"
              /\ decoded[i][2][1] = kvs[i][1]
              /\ Decimal(decoded[i][2][2]) = kvs[i][2]
         ELSE /\ decoded[i][1] = "Err"
              /\ decoded[i][2].kind = "ParseErr"
    /\ \A i, j \in 1..Len(decoded) : kvs[i] = kvs[j] => decoded[i] = decoded[j]

\* a failed item between two decoded ones
C8_Witness ==
    /\ pc = "decoded"
    /\ Len(decoded) = 2
    /\ decoded[1][1] = "Err"
    /\ decoded[2] = <<"Ok", <<<<255>>, 10>>>>

-----------------------------------------------------------------------------
(* range_with_prefix *)

\* the elements of the set of byte strings S in the given order
Sorted(S, ord) ==
    [i \in 1..Cardinality(S) |->
        CHOOSE k \in S :
            Cardinality({x \in S : IF ord = "Ascending" THEN LexLess(x, k)
                                                       ELSE LexLess(k, x)}) = i - 1]

\* Storage::range(start, end, order) of the store collaborator: the entries
\* with start <= key < end (None: unbounded), in the requested order
StoreRange(st, s, e, ord) ==
    LET hits == {k \in DOMAIN st : /\ (s = None \/ LexLeq(s[1], k))
                                   /\ (e = None \/ LexLess(k, e[1]))}
        keys == Sorted(hits, ord)
    IN [i \in 1..Len(keys) |-> <<keys[i], st[keys[i]]>>]

\* a plausible slip: the bytes are taken off the end of the key
trim_tail(ns, key) == SubSeq(key, 1, Len(key) - Len(ns))

\* key[namespace.len()..].to_vec(); the slice panics when the key is shorter
trim(ns, key) == SubSeq(key, Len(ns) + 1, Len(key))

\* a plausible slip: the relative end is taken as inclusive
range_end_inclusive(ns, e) ==
    IF e # None THEN concat(concat(ns, e[1]), <<0>>) ELSE namespace_upper_bound(ns)

\* lines 40-43: the absolute start
range_start(ns, s) == IF s # None THEN concat(ns, s[1]) ELSE ns

\* lines 44-48: the absolute end
range_end(ns, e) == IF e # None THEN concat(ns, e[1]) ELSE namespace_upper_bound(ns)

\* range_with_prefix up to the mapped iterator: the base iterator is taken
\* from the store, nothing is consumed yet
RangeWithPrefix(ns, s, e, ord) ==
    /\ pc = "idle"
    /\ namespace' = ns /\ start' = s /\ end' = e /\ order' = ord
    /\ base' = StoreRange(store, Some(range_start(ns, s)), Some(range_end(ns, e)), ord)
    /\ taken' = <<>>
    /\ yielded' = <<>>
    /\ pc' = "iter"
    /\ UNCHANGED <<input, probe, bound, namespaces, out, store, kvs, decoded>>

\* next() on the mapped iterator: the closure trims the next raw key; the
\* slice in trim panics on a key shorter than the namespace
IterNext ==
    /\ pc = "iter"
    /\ base # <<>>
    /\ LET k == Head(base)[1]
           v == Head(base)[2]
       IN IF Len(namespace) <= Len(k)
          THEN /\ yielded' = Append(yielded, <<trim(namespace, k), v>>)
               /\ pc' = "iter"
          ELSE /\ yielded' = yielded
               /\ pc' = "panic"
    /\ taken' = Append(taken, Head(base))
    /\ base' = Tail(base)
    /\ UNCHANGED <<input, probe, bound, namespaces, out, store, namespace,
                   start, end, order, kvs, decoded>>

\* next() returns None: the scan is over
IterEnd ==
    /\ pc = "iter"
    /\ base = <<>>
    /\ pc' = "done"
    /\ UNCHANGED <<input, probe, bound, namespaces, out, store, namespace,
                   start, end, order, base, taken, yielded, kvs, decoded>>

-----------------------------------------------------------------------------
(* Specification Spec: scans of a store of arbitrary raw keys *)

\* the value kept under a raw key: values are opaque to this layer, and
\* every entry has its own, so that a value that moved shows
ValueAt(k) == <<"value of", k>>

RawKeys == ByteStrings(KeyBytes, MaxKeyLen)

RelBounds == {None} \cup {Some(r) : r \in ByteStrings(KeyBytes, MaxRelLen)}

Orders == {"Ascending", "Descending"}

StoresOver(keys) ==
    {[k \in K |-> ValueAt(k)] : K \in {K \in SUBSET keys : Cardinality(K) <= MaxStore}}

Init ==
    /\ pc = "idle"
    /\ store \in StoresOver(RawKeys)
    /\ namespace = <<>> /\ start = None /\ end = None /\ order = "Ascending"
    /\ base = <<>> /\ taken = <<>> /\ yielded = <<>>
    /\ input = <<>> /\ probe = <<>> /\ bound = <<>>
    /\ namespaces = <<>> /\ out = <<>>
    /\ kvs = <<>> /\ decoded = <<>>

\* a caller scans some namespace of the store
Scan ==
    /\ pc = "idle"
    /\ \E ns \in RawKeys, s \in RelBounds, e \in RelBounds, ord \in Orders :
         RangeWithPrefix(ns, s, e, ord)

Next == Scan \/ IterNext \/ IterEnd

Spec == Init /\ [][Next]_vars

\* what follows the first n bytes of k
After(n, k) == SubSeq(k, n + 1, Len(k))

\* the items of the sequence seq, as a set
Items(seq) == {seq[i] : i \in 1..Len(seq)}

\* C5: with start and end both given, the scan yields exactly the store
\* entries whose raw key is namespace ++ r with start <= r < end
\* (byte-lexicographic on r), each once, as (r, value unchanged), so that
\* namespace ++ returned key is the stored raw key; nothing when no relative
\* key lies in [start, end).
C5_BoundedScan ==
    (start # None /\ end # None) =>
        /\ pc # "panic"
        /\ \A i \in 1..Len(yielded) :
             /\ concat(namespace, yielded[i][1]) = taken[i][1]
             /\ taken[i][1] \in DOMAIN store
             /\ yielded[i][2] = store[taken[i][1]]
        /\ pc = "done" =>
             /\ Items(yielded) =
                  {<<After(Len(namespace), k), store[k]>> :
                      k \in {x \in DOMAIN store :
                               /\ IsPrefix(namespace, x)
                               /\ LexLeq(start[1], After(Len(namespace), x))
                               /\ LexLess(After(Len(namespace), x), end[1])}}
             /\ Cardinality(Items(yielded)) = Len(yielded)

\* of two entries of the namespace, the one inside [start, end) is yielded
C5_Witness ==
    /\ pc = "done"
    /\ namespace = <<254>> /\ start = Some(<<254>>) /\ end = Some(<<255>>)
    /\ DOMAIN store = {<<254, 254>>, <<254, 255>>}
    /\ yielded = << <<<<254>>, ValueAt(<<254, 254>>)>> >>

\* C6: the relative keys yielded so far are strictly increasing for
\* Ascending and strictly decreasing for Descending, for every namespace
\* and every optional start and end.
C6_Order ==
    \A i \in 1..(Len(yielded) - 1) :
        IF order = "Ascending"
        THEN LexLess(yielded[i][1], yielded[i + 1][1])
        ELSE LexLess(yielded[i + 1][1], yielded[i][1])

\* a descending scan that yielded two entries
C6_Witness ==
    /\ pc = "done" /\ order = "Descending" /\ namespace = <<254>>
    /\ Len(yielded) = 2
    /\ yielded[1][1] = <<255>> /\ yielded[2][1] = <<254>>

\* C10: for a namespace that is non-empty and not all 0xFF, whatever the
\* store holds and whatever start and end are, every raw key the store
\* returns for the range begins with the namespace, so trim never slices
\* past the end of a key and the iteration does not panic.
C10_TrimInBounds ==
    (namespace # <<>> /\ ~AllFF(namespace)) =>
        /\ pc # "panic"
        /\ \A i \in 1..Len(taken) : IsPrefix(namespace, taken[i][1])
        /\ \A i \in 1..Len(base) : IsPrefix(namespace, base[i][1])

-----------------------------------------------------------------------------
(* Specification SpecNs: scans of a store of length-prefixed namespaces *)

NsSegments == ByteStrings(KeyBytes, MaxSegLen)

\* the relative keys stored under a namespace
RelKeys == ByteStrings({U8_MAX}, MaxRelLen)

\* the raw key of relative key r in the namespace of the one segment n
NsKey(n, r) == concat(to_length_prefixed_nested(<<n>>), r)

\* the store holds entries of the namespace to scan and of one other
InitNs ==
    /\ pc = "idle"
    /\ \E n \in NsSegments, other \in NsSegments :
         /\ namespace = to_length_prefixed_nested(<<n>>)
         /\ store \in StoresOver({NsKey(m, r) : m \in {n, other}, r \in RelKeys})
    /\ start = None /\ end = None /\ order = "Ascending"
    /\ base = <<>> /\ taken = <<>> /\ yielded = <<>>
    /\ input = <<>> /\ probe = <<>> /\ bound = <<>>
    /\ namespaces = <<>> /\ out = <<>>
    /\ kvs = <<>> /\ decoded = <<>>

\* a caller scans the namespace to its end
ScanNs ==
    /\ pc = "idle"
    /\ \E s \in RelBounds, ord \in Orders : RangeWithPrefix(namespace, s, None, ord)

NextNs == ScanNs \/ IterNext \/ IterEnd

SpecNs == InitNs /\ [][NextNs]_vars

\* the segment a length-prefixed raw key is stored under, read off its tag
SegmentOf(k) == SubSeq(k, 3, 2 + k[1] * (U8_MAX + 1) + k[2])

\* the relative key of a length-prefixed raw key: what follows the segment
RelKeyOf(k) == SubSeq(k, 3 + k[1] * (U8_MAX + 1) + k[2], Len(k))

\* C4: in a store of length-prefixed keys, the scan of namespace n with
\* end = None yields exactly the entries stored under n (those with
\* relative key >= start when start is given), each as (relative key,
\* value), and never an entry of another namespace, also when n is a prefix
\* of the other namespace or ends in 0xFF bytes.
C4_Isolation ==
    (pc # "idle" /\ end = None) =>
        LET n == SegmentOf(namespace)
        IN /\ namespace = to_length_prefixed_nested(<<n>>)
           /\ pc # "panic"
           /\ \A i \in 1..Len(taken) :
                /\ SegmentOf(taken[i][1]) = n
                /\ yielded[i] = <<RelKeyOf(taken[i][1]), store[taken[i][1]]>>
           /\ pc = "done" =>
                /\ Items(yielded) =
                     {<<RelKeyOf(k), store[k]>> :
                         k \in {x \in DOMAIN store :
                                  /\ SegmentOf(x) = n
                                  /\ (start = None \/ LexLeq(start[1], RelKeyOf(x)))}}
                /\ Cardinality(Items(yielded)) = Len(yielded)

\* the namespace ends in 0xFF, so the bound carries over, and the store
\* also holds an entry of a namespace that extends it
C4_Witness ==
    /\ pc = "done" /\ end = None
    /\ namespace = to_length_prefixed_nested(<< <<255>> >>)
    /\ DOMAIN store = {NsKey(<<255>>, <<255>>), NsKey(<<255, 254>>, <<>>)}
    /\ yielded = << <<<<255>>, ValueAt(NsKey(<<255>>, <<255>>))>> >>

====
